---- MODULE Spec2Model ----
(***************************************************************************)
(* Model of the multifactor ranking core of market-scanner                 *)
(* (src/multifactor_model.py): the momentum and fundamentals retrieval,    *)
(* the percentile normalizer and MultifactorScanner.calcular.              *)
(*                                                                         *)
(* Numbers.  Percentages and scores are fixed-point integers: a value in   *)
(* "hundredths" h stands for h/100, a smart_score in "tenths" t stands for *)
(* t/10.  Every round(..., 2) / .round(2) / .round(1) of the source is the *)
(* operator Redondear (round half to even on the exact quotient); the      *)
(* binary representation error of float64 is not modelled.                 *)
(* A nullable cell (None / NaN) is the empty sequence, a present value v   *)
(* is <<v>>.                                                               *)
(***************************************************************************)
EXTENDS Integers, Sequences, FiniteSets, TLC

VARIABLES
    pc,          \* position of the running call
    tickers,     \* self.tickers: the universe is the list 1..tickers
    callback,    \* whether calcular was given a progress_callback
    precios,     \* the price panel the provider returned, one column per ticker
    infos,       \* the provider's snapshot answers so far, one per ticker tried
    df_mom,      \* result of _descargar_momentum
    resultados,  \* rows collected by _descargar_fundamentals; the dict of
                 \* escanear_todos_periodos
    i,           \* loop index of _descargar_fundamentals
    progress,    \* fractions reported to the callback, as numerators over 100*tickers
    df,          \* the joined and scored frame of calcular (before the sort)
    ranking,     \* the table calcular returns
    series,      \* argument of a direct call of _percentile_rank
    ascending,   \* its direction flag
    pct,         \* its result
    df_raw,      \* the observation table given to _agregar_por_periodo
    n_trimestres, \* its window
    serie,       \* its result; also the series given to _build_ranking
    variacion,   \* the change series given to _top_losers / _top_gainers
    top_n,       \* the count n given to the rankers
    losers,      \* result of _top_losers, None before the call
    gainers,     \* result of _top_gainers, None before the call
    top,         \* result of _build_ranking(ascending=False), None before
    bottom,      \* result of _build_ranking(ascending=True), None before
    dias,        \* the lookback of _calcular_variacion
    pesos_input, \* the sidebar sliders: selected ticker -> weight in percent
    retornos,    \* PortfolioAnalyzer.retornos
    resultado,   \* result of analizar_portafolio, None before the call
    metricas,    \* result of metricas_individuales, None before the call
    _df_raw,     \* FundamentalsScanner._df_raw: None or the stored table
    metodo,      \* the public method called on the scanner
    previo,      \* _df_raw as it was when the last call started
    descargas,   \* bulk downloads made during the last call
    salida,      \* how the last call ended: the metrics ranked, or the error
    modo,        \* the direction flag given to MarketScanner.escanear
    tipo_pe,     \* the tipo_pe given to PERScanner.escanear
    escaneo      \* the dict PERScanner.escanear returned, None before

varsAgg == <<df_raw, n_trimestres, serie>>
varsRanker == <<variacion, top_n, losers, gainers, top, bottom>>
varsPortfolio == <<pesos_input, retornos, resultado, metricas>>
varsResto == <<_df_raw, metodo, previo, descargas, salida, modo, tipo_pe,
               escaneo>>
varsScanners == <<varsAgg, varsRanker, dias, varsPortfolio, varsResto>>

vars == <<pc, tickers, callback, precios, infos, df_mom, resultados, i,
          progress, df, ranking, series, ascending, pct, varsScanners>>

-----------------------------------------------------------------------------
(* Nullable cells *)

None == <<>>
Some(v) == <<v>>
IsNull(x) == x = None
NotNull(x) == x # None
Val(x) == x[1]

(* round half to even of num/den, den > 0 (numpy / Python rounding rule) *)
Redondear(num, den) ==
    LET q == num \div den
        r == num % den
    IN  IF 2 * r < den THEN q
        ELSE IF 2 * r > den THEN q + 1
        ELSE IF q % 2 = 0 THEN q ELSE q + 1

-----------------------------------------------------------------------------
(* _percentile_rank: src/multifactor_model.py 202-211 *)

Indices(s) == 1..Len(s)

(* series.notna().sum() *)
NotNaCount(s) == Cardinality({k \in Indices(s) : NotNull(s[k])})

(* the same with method="min": tied values all take the lowest position *)
RankMin2(s, asc) ==
    [k \in Indices(s) |->
        IF IsNull(s[k]) THEN None
        ELSE LET before == Cardinality({j \in Indices(s) : NotNull(s[j]) /\
                               (IF asc THEN Val(s[j]) < Val(s[k])
                                       ELSE Val(s[j]) > Val(s[k]))})
             IN  Some(2 * before + 2)]

(* series.rank(method="average", ascending=asc, na_option="keep"), doubled *)
(* so that the half ranks of ties stay integers: 2*rank = 2*before + ties+1 *)
RankAverage2(s, asc) ==
    [k \in Indices(s) |->
        IF IsNull(s[k]) THEN None
        ELSE LET before == Cardinality({j \in Indices(s) : NotNull(s[j]) /\
                               (IF asc THEN Val(s[j]) < Val(s[k])
                                       ELSE Val(s[j]) > Val(s[k]))})
                 ties   == Cardinality({j \in Indices(s) : NotNull(s[j]) /\
                               Val(s[j]) = Val(s[k])})
             IN  Some(2 * before + ties + 1)]

Hundred == 10000   \* the factor * 100 of line 210, in hundredths

PercentileRankNeutro(s, asc) ==
    LET ranked == RankAverage2(s, asc)
        n      == NotNaCount(s)
    IN  [k \in Indices(s) |->
            IF IsNull(ranked[k]) THEN None
            ELSE IF n > 1
                 THEN Some(Redondear((Val(ranked[k]) - 2) * Hundred, 2 * (n - 1)))
                 ELSE Some(Hundred \div 2)]

PercentileRankSinInvertir(s, asc) ==
    LET ranked == RankAverage2(s, TRUE)
        n      == NotNaCount(s)
    IN  [k \in Indices(s) |->
            IF IsNull(ranked[k]) THEN None
            ELSE IF n > 1
                 THEN Some(Redondear((Val(ranked[k]) - 2) * Hundred, 2 * (n - 1)))
                 ELSE Some(0)]

PercentileRankSobreTotal(s, asc) ==
    LET ranked == RankAverage2(s, asc)
        n      == Len(s)
    IN  [k \in Indices(s) |->
            IF IsNull(ranked[k]) THEN None
            ELSE IF n > 1
                 THEN Some(Redondear((Val(ranked[k]) - 2) * Hundred, 2 * (n - 1)))
                 ELSE Some(0)]

percentile_rank(s, asc) ==
    LET ranked == RankAverage2(s, asc)
        n      == NotNaCount(s)
    IN  [k \in Indices(s) |->
            IF IsNull(ranked[k]) THEN None
            ELSE IF n > 1
                 THEN Some(Redondear((Val(ranked[k]) - 2) * Hundred, 2 * (n - 1)))
                 ELSE Some(0)]

-----------------------------------------------------------------------------
(* _descargar_momentum: src/multifactor_model.py 77-136                    *)
(*                                                                         *)
(* A column of the price panel is summarized by what the loop reads of it: *)
(*   len    number of non-null observations (len(serie))                   *)
(*   ultimo the cell of the panel's last row (precio_actual[sym]), nullable *)
(*   h6     hist_6m.iloc[-1], None when hist_6m is empty                    *)
(*   h12    hist_12m.iloc[-1], None when hist_12m is empty                  *)
(* A ticker the provider returned no column for (or an all-null column,    *)
(* dropped at line 98) has the column None.                                *)

MinObs == 60

Columna(len, ultimo, h6, h12) ==
    Some([len |-> len, ultimo |-> ultimo, h6 |-> h6, h12 |-> h12])

(* percentage change (p_actual - p0) / p0 * 100, rounded to 2 decimals *)
Variacion(p_actual, p0) == Redondear((p_actual - p0) * 10000, p0)

(* round((mom_6m + mom_12m) / 2, 2) on the unrounded changes *)
VariacionMedia(p_actual, p6, p12) ==
    Redondear(5000 * ((p_actual - p6) * p12 + (p_actual - p12) * p6), p6 * p12)

(* one iteration of the loop at 106-134: the row appended, or None *)
FilaMomentum(sym, columna) ==
    IF IsNull(columna) THEN None
    ELSE LET c == Val(columna) IN
         IF c.len < MinObs THEN None
         ELSE IF IsNull(c.h6) \/ IsNull(c.h12) THEN None
         ELSE IF IsNull(c.ultimo)
         THEN Some([Ticker |-> sym, mom_6m |-> None, mom_12m |-> None,
                    mom_avg |-> None])
         ELSE Some([Ticker  |-> sym,
                    mom_6m  |-> Some(Variacion(Val(c.ultimo), Val(c.h6))),
                    mom_12m |-> Some(Variacion(Val(c.ultimo), Val(c.h12))),
                    mom_avg |-> Some(VariacionMedia(Val(c.ultimo), Val(c.h6),
                                                    Val(c.h12)))])

RECURSIVE FilasMomentum(_, _)
FilasMomentum(panel, n) ==
    IF n = 0 THEN <<>>
    ELSE FilasMomentum(panel, n - 1) \o FilaMomentum(n, panel[n])

(* pd.DataFrame(resultados); an empty or failed download gives the empty *)
(* frame (94-95, 100-101), as does a panel without any column           *)
descargar_momentum(panel) == FilasMomentum(panel, Len(panel))

-----------------------------------------------------------------------------
(* _descargar_fundamentals: src/multifactor_model.py 143-195               *)
(*                                                                         *)
(* The snapshot info holds trailingPE (a whole number), and returnOnAssets, *)
(* returnOnEquity, profitMargins and dividendYield as decimals in units of *)
(* 0.00001; each key may be missing (None).  The row keeps the ratios as   *)
(* percentages in hundredths.  Nombre is display text and is left out.     *)

PerMax == 1000

Porcentaje(x) == IF IsNull(x) THEN None ELSE Some(Redondear(Val(x), 10))

FilaPER(per) ==
    IF IsNull(per) THEN None
    ELSE IF Val(per) <= 0 \/ Val(per) > PerMax THEN None ELSE per

FilaDY(dy) == IF IsNull(dy) THEN Some(0) ELSE Some(Redondear(Val(dy), 10))

FilaFundamentals(sym, info) ==
    [Ticker     |-> sym,
     PER        |-> FilaPER(info.trailingPE),
     ROA_pct    |-> Porcentaje(info.returnOnAssets),
     ROE_pct    |-> Porcentaje(info.returnOnEquity),
     Margen_pct |-> Porcentaje(info.profitMargins),
     DY_pct     |-> FilaDY(info.dividendYield)]

-----------------------------------------------------------------------------
(* MultifactorScanner.calcular: src/multifactor_model.py 230-313 *)

PESOS == [momentum |-> 40, valoracion |-> 20, calidad |-> 30, dividendos |-> 10]

TOP_N == 20

ColumnaDe(f, c) == [k \in Indices(f) |-> f[k][c]]

fillna(s, v) == [k \in Indices(s) |-> IF IsNull(s[k]) THEN Some(v) ELSE s[k]]

(* the same with how="left": a momentum row without fundamentals is kept *)
RECURSIVE MergeIzquierda(_, _)
MergeIzquierda(izq, der) ==
    IF izq = <<>> THEN <<>>
    ELSE LET m     == Head(izq)
             pares == {k \in Indices(der) : der[k].Ticker = m.Ticker}
         IN  (IF pares = {}
              THEN <<[Ticker |-> m.Ticker, mom_6m |-> m.mom_6m,
                      mom_12m |-> m.mom_12m, mom_avg |-> m.mom_avg,
                      PER |-> None, ROA_pct |-> None, ROE_pct |-> None,
                      Margen_pct |-> None, DY_pct |-> None]>>
              ELSE LET f == der[CHOOSE k \in pares : TRUE]
                   IN  <<[Ticker |-> m.Ticker, mom_6m |-> m.mom_6m,
                          mom_12m |-> m.mom_12m, mom_avg |-> m.mom_avg,
                          PER |-> f.PER, ROA_pct |-> f.ROA_pct,
                          ROE_pct |-> f.ROE_pct, Margen_pct |-> f.Margen_pct,
                          DY_pct |-> f.DY_pct]>>)
             \o MergeIzquierda(Tail(izq), der)

(* pd.merge(df_mom, df_fund, on="Ticker", how="inner"): left order kept *)
RECURSIVE Merge(_, _)
Merge(izq, der) ==
    IF izq = <<>> THEN <<>>
    ELSE LET m     == Head(izq)
             pares == {k \in Indices(der) : der[k].Ticker = m.Ticker}
         IN  (IF pares = {} THEN <<>>
              ELSE LET f == der[CHOOSE k \in pares : TRUE]
                   IN  <<[Ticker |-> m.Ticker, mom_6m |-> m.mom_6m,
                          mom_12m |-> m.mom_12m, mom_avg |-> m.mom_avg,
                          PER |-> f.PER, ROA_pct |-> f.ROA_pct,
                          ROE_pct |-> f.ROE_pct, Margen_pct |-> f.Margen_pct,
                          DY_pct |-> f.DY_pct]>>)
             \o Merge(Tail(izq), der)

(* 273: no fallback is applied to the momentum score *)
ScoreMomentum(f) == percentile_rank(ColumnaDe(f, "mom_avg"), TRUE)

(* 276-278 *)
ScoreValoracion(f) == fillna(percentile_rank(ColumnaDe(f, "PER"), FALSE), 5000)

ScoreCalidadCero(f) ==
    LET s1 == fillna(percentile_rank(ColumnaDe(f, "ROA_pct"), TRUE), 0)
        s2 == fillna(percentile_rank(ColumnaDe(f, "ROE_pct"), TRUE), 0)
        s3 == fillna(percentile_rank(ColumnaDe(f, "Margen_pct"), TRUE), 0)
    IN  [k \in Indices(f) |->
            Some(Redondear(Val(s1[k]) + Val(s2[k]) + Val(s3[k]), 3))]

(* 281-285: mean of the three sub-scores, each null sub-score filled with 50 *)
ScoreCalidad(f) ==
    LET s1 == fillna(percentile_rank(ColumnaDe(f, "ROA_pct"), TRUE), 5000)
        s2 == fillna(percentile_rank(ColumnaDe(f, "ROE_pct"), TRUE), 5000)
        s3 == fillna(percentile_rank(ColumnaDe(f, "Margen_pct"), TRUE), 5000)
    IN  [k \in Indices(f) |->
            Some(Redondear(Val(s1[k]) + Val(s2[k]) + Val(s3[k]), 3))]

(* 288 *)
ScoreDividendos(f) == fillna(percentile_rank(ColumnaDe(f, "DY_pct"), TRUE), 0)

(* 291-296: the weighted sum rounded to 1 decimal (tenths); NaN if a term is *)
SmartScore(sm, sv, sc, sd) ==
    IF IsNull(sm) \/ IsNull(sv) \/ IsNull(sc) \/ IsNull(sd) THEN None
    ELSE Some(Redondear(Val(sm) * PESOS.momentum + Val(sv) * PESOS.valoracion
                        + Val(sc) * PESOS.calidad + Val(sd) * PESOS.dividendos,
                        1000))

(* 270-296: the joined frame with its score columns *)
Puntuar(f) ==
    LET sm == ScoreMomentum(f)
        sv == ScoreValoracion(f)
        sc == ScoreCalidad(f)
        sd == ScoreDividendos(f)
    IN  [k \in Indices(f) |->
            [Ticker |-> f[k].Ticker, mom_6m |-> f[k].mom_6m,
             mom_12m |-> f[k].mom_12m, mom_avg |-> f[k].mom_avg,
             PER |-> f[k].PER, ROA_pct |-> f[k].ROA_pct,
             ROE_pct |-> f[k].ROE_pct, Margen_pct |-> f[k].Margen_pct,
             DY_pct |-> f[k].DY_pct,
             score_momentum |-> sm[k], score_valoracion |-> sv[k],
             score_calidad |-> sc[k], score_dividendos |-> sd[k],
             smart_score |-> SmartScore(sm[k], sv[k], sc[k], sd[k])]]

(* the same with ascending=True *)
AntesAscendente(a, b) == NotNull(a) /\ (IsNull(b) \/ Val(a) < Val(b))

(* sort_values("smart_score", ascending=False): a goes strictly before b; *)
(* NaN sorts last                                                         *)
Antes(a, b) == NotNull(a) /\ (IsNull(b) \/ Val(a) > Val(b))

PermSeqs(T) ==
    {p \in [1..Cardinality(T) -> T] :
        \A a, b \in 1..Cardinality(T) : a # b => p[a] # p[b]}

(* every row order the sort may produce: the default kind is quicksort,   *)
(* which is not stable, so rows of equal smart_score come in any order    *)
RECURSIVE Ordenes(_, _)
Ordenes(f, S) ==
    IF S = {} THEN {<<>>}
    ELSE LET cabeza == {k \in S : \A j \in S :
                           ~Antes(f[j].smart_score, f[k].smart_score)}
         IN  {p \o r : p \in PermSeqs(cabeza), r \in Ordenes(f, S \ cabeza)}

Min(a, b) == IF a < b THEN a ELSE b

(* 299-300: head(TOP_N), reset_index(drop=True), index + 1 *)
TopN(f, orden) ==
    [r \in 1..Min(TOP_N, Len(orden)) |-> [rank |-> (r - 1) + 1, fila |-> f[orden[r]]]]

(* 262-313 as a function of the two datasets: every table calcular may    *)
(* return for them (one per tie order of the sort)                        *)
Tablas(mom, fund) ==
    LET joined == Merge(mom, fund)
    IN  IF mom = <<>> \/ fund = <<>> \/ joined = <<>> THEN {<<>>}
        ELSE UNION {{TopN(g, orden) : orden \in Ordenes(g, Indices(g))} :
                        g \in {Puntuar(joined)}}

-----------------------------------------------------------------------------
(* The data provider, bounded.  In a universe of at most MaxSmall tickers  *)
(* the last MaxVaried tickers answer with any column of ColumnSet and any  *)
(* snapshot of InfoSet, or fail; in a universe of TOP_N tickers or more    *)
(* the last MaxVariedTop tickers answer with any column of ColumnSetTop    *)
(* and any snapshot of InfoSetTop, or fail.  The tickers before them       *)
(* answer with a fixed complete column and snapshot (the first two share   *)
(* their prices, so two rows tie at the bottom of the ranking).            *)

MaxSmall == 3
MaxVaried == 2
MaxOver == 2
MaxVariedTop == 1

ColumnSet ==
    { None,
      Columna(150, Some(110), Some(100), None),
      Columna(250, None,      Some(100), Some(120)),
      Columna(250, Some(110), Some(100), Some(120)),
      Columna(250, Some(90),  Some(100), Some(120)) }

ColumnSetTop ==
    { None,
      Columna(250, None,      Some(100), Some(120)),
      Columna(250, Some(150), Some(100), Some(120)) }

Info(pe, roa, roe, margen, dy) ==
    [trailingPE |-> pe, returnOnAssets |-> roa, returnOnEquity |-> roe,
     profitMargins |-> margen, dividendYield |-> dy]

InfoSet ==
    { Info(Some(15),   Some(5123),  Some(15000), Some(20000), Some(2000)),
      Info(Some(30),   Some(10000), Some(10000), Some(10000), Some(4000)),
      Info(None,       Some(5123),  Some(15000), Some(20000), None),
      Info(Some(-5),   None,        Some(10000), Some(10000), Some(4000)),
      Info(Some(2000), None,        None,        None,        None) }

InfoSetTop ==
    { Info(Some(15),   Some(5123),  Some(15000), Some(20000), Some(2000)),
      Info(Some(2000), None,        None,        None,        None) }

IsVaried(t) ==
    t > tickers - (IF tickers <= MaxSmall THEN MaxVaried ELSE MaxVariedTop)

FillerColumn(t) ==
    Columna(250, Some(100 + 2 * (IF t < 2 THEN 2 ELSE t)), Some(100), Some(120))

FillerInfo == Info(Some(20), Some(8000), Some(12000), Some(15000), Some(3000))

Columns(t) ==
    IF ~IsVaried(t) THEN {FillerColumn(t)}
    ELSE IF tickers <= MaxSmall THEN ColumnSet ELSE ColumnSetTop

(* a failed retrieval (the except branch at 189) is the answer None *)
Answers(t) ==
    IF ~IsVaried(t) THEN {Some(FillerInfo)}
    ELSE {None} \cup {Some(x) : x \in (IF tickers <= MaxSmall THEN InfoSet
                                                             ELSE InfoSetTop)}

RECURSIVE PanelsUpTo(_)
PanelsUpTo(n) ==
    IF n = 0 THEN {<<>>}
    ELSE {Append(p, c) : p \in PanelsUpTo(n - 1), c \in Columns(n)}

Panels == PanelsUpTo(tickers)

-----------------------------------------------------------------------------
(* The run of calcular *)

IdleRank ==
    /\ series = <<>>
    /\ ascending = TRUE
    /\ pct = <<>>

IdleAgg ==
    /\ df_raw = <<>>
    /\ n_trimestres = 0
    /\ serie = <<>>

IdleRanker ==
    /\ variacion = <<>>
    /\ top_n = 0
    /\ losers = None /\ gainers = None
    /\ top = None /\ bottom = None

IdlePortfolio ==
    /\ pesos_input = <<>>
    /\ retornos = <<>>
    /\ resultado = None
    /\ metricas = None

IdleResto ==
    /\ _df_raw = None
    /\ metodo = ""
    /\ previo = None
    /\ descargas = 0
    /\ salida = None
    /\ modo = ""
    /\ tipo_pe = ""
    /\ escaneo = None

IdleScanners ==
    /\ IdleAgg
    /\ IdleRanker
    /\ dias = 0
    /\ IdlePortfolio
    /\ IdleResto

InitCalcular ==
    /\ pc = "momentum"
    /\ callback \in BOOLEAN
    /\ precios = <<>>
    /\ infos = <<>>
    /\ df_mom = <<>>
    /\ resultados = <<>>
    /\ i = 0
    /\ progress = <<>>
    /\ df = <<>>
    /\ ranking = <<>>
    /\ IdleRank
    /\ IdleScanners

Init ==
    /\ tickers \in 1..MaxSmall
    /\ InitCalcular

InitTop ==
    /\ tickers \in TOP_N..(TOP_N + MaxOver)
    /\ InitCalcular

(* the same reporting only the first fraction of a step *)
ReportPrimero(fracs) == IF callback THEN progress \o <<fracs[1]>> ELSE progress

Report(fracs) == IF callback THEN progress \o fracs ELSE progress

(* the same without the base 0.35 of the fundamentals phase *)
ProgFundSinBase(n) == 55 * n

(* 253-256 with 192-193: _prog_fund((i + 1) / total) = 0.35 + val * 0.55, *)
(* as a numerator over 100 * tickers; n is i + 1                          *)
prog_fund(n) == 35 * tickers + 55 * n

(* 241-247: progress 0.05, the bulk price download, progress 0.35 *)
Momentum ==
    /\ pc = "momentum"
    /\ \E panel \in Panels :
        /\ precios' = panel
        /\ df_mom' = descargar_momentum(panel)
    /\ progress' = Report(<<5 * tickers, 35 * tickers>>)
    /\ pc' = "fundamentals"
    /\ UNCHANGED <<tickers, callback, infos, resultados, i, df, ranking,
                   series, ascending, pct, varsScanners>>

(* 151-193: one iteration of the per-ticker loop, ticker i + 1 *)
FundStep ==
    /\ pc = "fundamentals"
    /\ i < tickers
    /\ \E info \in Answers(i + 1) :
        /\ infos' = Append(infos, info)
        /\ resultados' = IF IsNull(info) THEN resultados
                         ELSE Append(resultados, FilaFundamentals(i + 1, Val(info)))
    /\ progress' = Report(<<prog_fund(i + 1)>>)
    /\ i' = i + 1
    /\ pc' = IF i + 1 = tickers THEN "scores" ELSE "fundamentals"
    /\ UNCHANGED <<tickers, callback, precios, df_mom, df, ranking,
                   series, ascending, pct, varsScanners>>

(* 259-313: progress 0.92, the join, the scores, the sort and the return *)
Finish ==
    /\ pc = "scores"
    /\ \E joined \in {Merge(df_mom, resultados)} :
       IF df_mom = <<>> \/ resultados = <<>> \/ joined = <<>>
       THEN /\ df' = <<>>
            /\ ranking' = <<>>
            /\ progress' = Report(<<92 * tickers>>)
       ELSE /\ df' = Puntuar(joined)
            /\ \E orden \in Ordenes(df', Indices(df')) :
                  ranking' = TopN(df', orden)
            /\ progress' = Report(<<92 * tickers, 100 * tickers>>)
    /\ pc' = "fin"
    /\ UNCHANGED <<tickers, callback, precios, infos, df_mom, resultados, i,
                   series, ascending, pct, varsScanners>>

Next == Momentum \/ FundStep \/ Finish

Spec == Init /\ [][Next]_vars

SpecTop == InitTop /\ [][Next]_vars

-----------------------------------------------------------------------------
(* Specification of the normalizer alone: a bounded series is normalized   *)
(* once, in either direction.                                              *)

MaxLen == 4
MetricValues == {5, 10, 20}
Cells == {None} \cup {Some(v) : v \in MetricValues}
SeriesSet == UNION {[1..n -> Cells] : n \in 0..MaxLen}

IdleMultifactor ==
    /\ tickers = 0
    /\ callback = FALSE
    /\ infos = <<>>
    /\ ranking = <<>>
    /\ df_mom = <<>>
    /\ resultados = <<>>
    /\ i = 0
    /\ progress = <<>>
    /\ df = <<>>

IdleCalcular ==
    /\ IdleMultifactor
    /\ precios = <<>>

InitRank ==
    /\ pc = "rank_call"
    /\ series \in SeriesSet
    /\ ascending \in BOOLEAN
    /\ pct = <<>>
    /\ IdleCalcular
    /\ IdleScanners

PercentileRank ==
    /\ pc = "rank_call"
    /\ pct' = percentile_rank(series, ascending)
    /\ pc' = "rank_ret"
    /\ UNCHANGED <<tickers, callback, precios, infos, df_mom, resultados, i,
                   progress, df, ranking, series, ascending, varsScanners>>

NextRank == PercentileRank

SpecRank == InitRank /\ [][NextRank]_vars

-----------------------------------------------------------------------------
(* Claims about _percentile_rank, checked under SpecRank *)

Returned == pc = "rank_ret"
NonNull(s) == {k \in Indices(s) : NotNull(s[k])}
Distinct(s) == \A j, k \in NonNull(s) : j # k => Val(s[j]) # Val(s[k])
IsMin(s, k) == \A j \in NonNull(s) : Val(s[k]) <= Val(s[j])
IsMax(s, k) == \A j \in NonNull(s) : Val(s[k]) >= Val(s[j])
UniqueAt(s, k) == \A j \in NonNull(s) : j # k => Val(s[j]) # Val(s[k])
ScenarioB == <<Some(5), Some(5), Some(10), Some(20)>>

(* C2 as stated: on {A:5, B:5, C:10, D:20}, ascending, A and B have the     *)
(* average rank 1.5 and score 50.0 each, and D scores 100.                  *)
C2_Original ==
    (Returned /\ ascending /\ series = ScenarioB) =>
        /\ RankAverage2(series, TRUE)[1] = Some(3)
        /\ RankAverage2(series, TRUE)[2] = Some(3)
        /\ pct[1] = Some(5000) /\ pct[2] = Some(5000)
        /\ pct[4] = Some(10000)

(* C2 amended: on {A:5, B:5, C:10, D:20}, ascending, A and B have the       *)
(* average rank 1.5 and score (1.5 - 1) / (4 - 1) * 100 = 16.67 each, and D *)
(* scores 100.                                                             *)
C2_ScenarioB ==
    (Returned /\ ascending /\ series = ScenarioB) =>
        /\ RankAverage2(series, TRUE)[1] = Some(3)
        /\ RankAverage2(series, TRUE)[2] = Some(3)
        /\ pct[1] = Some(1667) /\ pct[2] = Some(1667)
        /\ pct[4] = Some(10000)

C2_Witness == Returned /\ ascending /\ series = ScenarioB

(* C3: on a series whose k >= 2 non-null values are pairwise distinct,     *)
(* ascending scoring gives the minimum 0 and the maximum 100, every        *)
(* non-null entry a score in [0,100], never a smaller score to a strictly  *)
(* larger value, and leaves every null entry null.                         *)
C3_DistinctAscending ==
    (Returned /\ ascending /\ Distinct(series) /\ NotNaCount(series) >= 2) =>
        /\ Len(pct) = Len(series)
        /\ \A k \in Indices(series) :
              IF IsNull(series[k]) THEN IsNull(pct[k])
              ELSE /\ NotNull(pct[k])
                   /\ Val(pct[k]) >= 0 /\ Val(pct[k]) <= 10000
                   /\ IsMin(series, k) => Val(pct[k]) = 0
                   /\ IsMax(series, k) => Val(pct[k]) = 10000
        /\ \A j, k \in NonNull(series) :
              Val(series[j]) < Val(series[k]) => Val(pct[j]) <= Val(pct[k])

C3_Witness ==
    /\ Returned /\ ascending /\ Distinct(series)
    /\ NotNaCount(series) >= 3
    /\ \E k \in Indices(series) : IsNull(series[k])
    /\ \E k \in NonNull(series) : Val(pct[k]) > 0 /\ Val(pct[k]) < 10000

(* C4: with fewer than 2 non-null values the valid entry (if any) scores 0 *)
(* and every null entry stays null, in both directions; the quotient by    *)
(* n - 1 = 0 is never evaluated.                                           *)
C4_Degenerate ==
    (Returned /\ NotNaCount(series) < 2) =>
        /\ Len(pct) = Len(series)
        /\ \A k \in Indices(series) :
              pct[k] = IF IsNull(series[k]) THEN None ELSE Some(0)

C4_Witness ==
    /\ Returned /\ ~ascending
    /\ NotNaCount(series) = 1 /\ Len(series) >= 2
    /\ \E k \in Indices(series) : pct[k] = Some(0)

-----------------------------------------------------------------------------
(* Claims about MultifactorScanner.calcular.  The call has returned when   *)
(* pc = "fin"; infos[t] and precios[t] are what the provider answered for  *)
(* ticker t.                                                               *)

Fin == pc = "fin"
EnMomentum(t) == \E k \in Indices(df_mom) : df_mom[k].Ticker = t
EnFundamentals(t) == \E k \in Indices(resultados) : resultados[k].Ticker = t
FilasDe(t) == {k \in Indices(df) : df[k].Ticker = t}
TieneSnapshot(t) == NotNull(infos[t])
Snapshot(t) == Val(infos[t])
EnRango(x, lo, hi) == NotNull(x) /\ Val(x) >= lo /\ Val(x) <= hi

(* C1 as stated: every joined asset whose snapshot has no dividend yield   *)
(* has score_dividendos exactly 0, however many other assets lack one too. *)
C1_SinDividendoCero ==
    Fin => \A k \in Indices(df) :
              (TieneSnapshot(df[k].Ticker)
                 /\ IsNull(Snapshot(df[k].Ticker).dividendYield))
              => df[k].score_dividendos = Some(0)

(* C6 as stated: every returned row has a defined smart_score in [0,100]   *)
(* that is the weighted sum 0.40/0.20/0.30/0.10 of its four factor scores  *)
(* (to the one decimal reported), the weights sum to 1.0, and each factor  *)
(* score is defined and in [0,100].                                        *)
C6_SmartScoreDefinido ==
    Fin => \A r \in Indices(ranking) :
              LET f == ranking[r].fila IN
              /\ PESOS.momentum + PESOS.valoracion + PESOS.calidad
                    + PESOS.dividendos = 100
              /\ EnRango(f.score_momentum, 0, 10000)
              /\ EnRango(f.score_valoracion, 0, 10000)
              /\ EnRango(f.score_calidad, 0, 10000)
              /\ EnRango(f.score_dividendos, 0, 10000)
              /\ EnRango(f.smart_score, 0, 1000)
              /\ LET w == 40 * Val(f.score_momentum) + 20 * Val(f.score_valoracion)
                          + 30 * Val(f.score_calidad) + 10 * Val(f.score_dividendos)
                     d == 1000 * Val(f.smart_score) - w
                 IN  d >= -500 /\ d <= 500

(* C7 as stated: an asset that has fundamentals but no usable momentum     *)
(* value (its 6-month or 12-month change cannot be computed, or its        *)
(* momentum figure is undefined) is still scored, with score_momentum 50.  *)
SinMomentumUtil(t) ==
    /\ NotNull(precios[t])
    /\ Val(precios[t]).len >= MinObs
    /\ \/ IsNull(Val(precios[t]).h6)
       \/ IsNull(Val(precios[t]).h12)
       \/ IsNull(Val(precios[t]).ultimo)

C7_MomentumNeutro ==
    Fin => \A t \in 1..tickers :
              (TieneSnapshot(t) /\ SinMomentumUtil(t))
              => \E k \in FilasDe(t) : df[k].score_momentum = Some(5000)

(* C8: an asset present in both datasets whose trailing PE is missing,     *)
(* <= 0 or > 1000 is scored with a null PER and score_valoracion = 50; its *)
(* score_calidad is the mean of three sub-scores in which each null        *)
(* sub-metric (ROA, ROE, margin) counts exactly 50; it is never dropped.   *)
PerInutil(t) ==
    \/ IsNull(Snapshot(t).trailingPE)
    \/ Val(Snapshot(t).trailingPE) <= 0
    \/ Val(Snapshot(t).trailingPE) > 1000

SubScore(k, raw, col) ==
    IF IsNull(raw) THEN 5000
    ELSE Val(percentile_rank([j \in Indices(df) |-> df[j][col]], TRUE)[k])

C8_HuecosNeutros ==
    Fin => \A t \in 1..tickers :
              (EnMomentum(t) /\ TieneSnapshot(t)) =>
                  /\ FilasDe(t) # {}
                  /\ \A k \in FilasDe(t) :
                        /\ PerInutil(t) => /\ IsNull(df[k].PER)
                                           /\ df[k].score_valoracion = Some(5000)
                        /\ 3 * Val(df[k].score_calidad)
                             - ( SubScore(k, Snapshot(t).returnOnAssets, "ROA_pct")
                               + SubScore(k, Snapshot(t).returnOnEquity, "ROE_pct")
                               + SubScore(k, Snapshot(t).profitMargins, "Margen_pct"))
                           \in -1..1

C8_Witness ==
    /\ Fin
    /\ Len(df) >= 3
    /\ \E k \in Indices(df) :
          /\ Snapshot(df[k].Ticker).trailingPE = Some(2000)
          /\ df[k].score_valoracion = Some(5000)
          /\ df[k].score_calidad = Some(5000)
    /\ \E k \in Indices(df) :
          /\ Snapshot(df[k].Ticker).trailingPE = Some(-5)
          /\ IsNull(df[k].ROA_pct)
          /\ df[k].score_calidad # Some(5000)

(* C9: the assets scored are exactly those present in both the momentum    *)
(* dataset and the fundamentals dataset, each once; a null field never     *)
(* excludes an asset that is in both.                                      *)
C9_InnerJoin ==
    Fin => /\ {df[k].Ticker : k \in Indices(df)}
                = {t \in 1..tickers : EnMomentum(t) /\ EnFundamentals(t)}
           /\ \A j, k \in Indices(df) : j # k => df[j].Ticker # df[k].Ticker
           /\ Len(df) <= TOP_N =>
                {ranking[r].fila.Ticker : r \in Indices(ranking)}
                    = {t \in 1..tickers : EnMomentum(t) /\ EnFundamentals(t)}

C9_Witness ==
    /\ Fin
    /\ Len(ranking) >= 2
    /\ \E t \in 1..tickers : EnMomentum(t) /\ ~EnFundamentals(t)
    /\ \E r \in Indices(ranking) :
          IsNull(ranking[r].fila.PER) /\ IsNull(ranking[r].fila.mom_avg)

(* C10: the returned table has min(20, joined assets) rows, ranks 1..N     *)
(* without gap or repeat, a smart_score that never increases with the rank *)
(* and no left-out asset with a strictly higher smart_score than a listed  *)
(* one.                                                                    *)
Mayor(a, b) == NotNull(a) /\ NotNull(b) /\ Val(a) > Val(b)
Joined == {t \in 1..tickers : EnMomentum(t) /\ EnFundamentals(t)}
Listed == {ranking[r].fila.Ticker : r \in Indices(ranking)}

C10_TopN ==
    Fin => /\ Len(ranking) = (IF Cardinality(Joined) < 20
                              THEN Cardinality(Joined) ELSE 20)
           /\ \A r \in Indices(ranking) : ranking[r].rank = r
           /\ \A r, q \in Indices(ranking) :
                 r # q => ranking[r].fila.Ticker # ranking[q].fila.Ticker
           /\ \A r \in Indices(ranking) :
                 \E k \in Indices(df) : df[k] = ranking[r].fila
           /\ \A r \in Indices(ranking) :
                 r < Len(ranking) =>
                    ~Mayor(ranking[r + 1].fila.smart_score,
                           ranking[r].fila.smart_score)
           /\ \A k \in Indices(df) :
                 df[k].Ticker \notin Listed =>
                    \A r \in Indices(ranking) :
                        ~Mayor(df[k].smart_score, ranking[r].fila.smart_score)

C10_Witness ==
    /\ Fin
    /\ Cardinality(Joined) > TOP_N
    /\ Len(ranking) = TOP_N
    /\ \E k \in Indices(df) :
          /\ df[k].Ticker \notin Listed
          /\ df[k].smart_score = ranking[TOP_N].fila.smart_score

-----------------------------------------------------------------------------
(* C11 as stated: when the momentum dataset or the fundamentals dataset is *)
(* empty after retrieval, calcular fails and returns no table, so a call   *)
(* that has returned had both datasets non-empty.                          *)
C11_FallaSiVacio ==
    Fin => (df_mom # <<>> /\ resultados # <<>>)

(* the rows of a dataset in the order a reversed universe produces them *)
Invertir(f) == [k \in Indices(f) |-> f[Len(f) + 1 - k]]

(* C12 as stated: scoring the same universe with its rows in another order *)
(* (here the reversed order) gives every asset the same four factor scores *)
(* and the same smart_score, and every table returned for it lists the     *)
(* same set of assets, ties at the rank-20 boundary included.              *)
C12_OrdenIndiferente ==
    Fin => \A g \in {Puntuar(Merge(Invertir(df_mom), Invertir(resultados)))} :
              /\ Len(g) = Len(df)
              /\ \A k \in Indices(df) : \E m \in Indices(g) : g[m] = df[k]
              /\ \A orden \in Ordenes(g, Indices(g)) :
                    {TopN(g, orden)[r].fila.Ticker : r \in 1..Min(TOP_N, Len(g))}
                        = Listed

(* the fundamentals rows the answers collected so far give, in list order *)
RECURSIVE FilasFund(_, _)
FilasFund(answers, n) ==
    IF n = 0 THEN <<>>
    ELSE FilasFund(answers, n - 1)
            \o (IF IsNull(answers[n]) THEN <<>>
                ELSE <<FilaFundamentals(n, Val(answers[n]))>>)

(* the fractions a whole run reports, as numerators over 100 * tickers *)
Esperado ==
    <<5 * tickers, 35 * tickers>>
        \o [k \in 1..tickers |-> 35 * tickers + 55 * k]
        \o <<92 * tickers, 100 * tickers>>

(* C13: with a callback every reported fraction lies in [0,1], the reported *)
(* sequence never decreases and follows 0.05, 0.35, 0.35 + 0.55*(i+1)/total *)
(* per ticker, 0.92, 1.0 in call order (a run that returns an empty table   *)
(* stops after 0.92); without a callback nothing is reported; and in both   *)
(* cases the returned table is one the two datasets alone determine.        *)
C13_Progreso ==
    /\ ~callback => progress = <<>>
    /\ \A k \in Indices(progress) :
          /\ progress[k] >= 0 /\ progress[k] <= 100 * tickers
          /\ k < Len(progress) => progress[k] <= progress[k + 1]
          /\ k <= Len(Esperado) /\ progress[k] = Esperado[k]
    /\ (Fin /\ callback) =>
          Len(progress) = tickers + (IF ranking = <<>> THEN 3 ELSE 4)
    /\ Fin => /\ df_mom = descargar_momentum(precios)
              /\ resultados = FilasFund(infos, Len(infos))
              /\ ranking \in Tablas(df_mom, resultados)

C13_Witness ==
    /\ Fin /\ callback
    /\ tickers = MaxSmall
    /\ \E t \in 1..tickers : IsNull(infos[t])
    /\ Len(ranking) >= 2
    /\ progress[Len(progress)] = 100 * tickers

-----------------------------------------------------------------------------
(* _agregar_por_periodo: src/dividend_scanner_model.py 423-440             *)
(*                                                                         *)
(* A row of the observation table is [Ticker, Trimestre_idx, valor], valor *)
(* being the nullable cell of the metric column asked for.  Metric values  *)
(* are in twelfths (120 stands for 10, 360 for 30), so that the mean of up *)
(* to four cells is exact.  A series is a sequence of [Ticker, valor].     *)

RECURSIVE Suma(_)
Suma(s) == IF s = <<>> THEN 0 ELSE Head(s) + Suma(Tail(s))

(* the same with Trimestre_idx <= n_trimestres *)
FiltrarInclusive(tabla, nt) ==
    LET EnVentana(r) == r.Trimestre_idx <= nt IN SelectSeq(tabla, EnVentana)

(* 432: df_raw[df_raw["Trimestre_idx"] < n_trimestres] *)
Filtrar(tabla, nt) ==
    LET EnVentana(r) == r.Trimestre_idx < nt IN SelectSeq(tabla, EnVentana)

(* the same with NaN propagated: one null cell makes the mean NaN *)
MediaSinSaltar(grupo) ==
    IF \E k \in Indices(grupo) : IsNull(grupo[k].valor) THEN None
    ELSE IF grupo = <<>> THEN None
    ELSE Some(Suma([k \in Indices(grupo) |-> Val(grupo[k].valor)]) \div Len(grupo))

(* 436-437: the group's mean, NaN skipped; NaN when no cell is valid *)
Media(grupo) ==
    LET Presente(r) == NotNull(r.valor)
        validos == SelectSeq(grupo, Presente)
    IN  IF validos = <<>> THEN None
        ELSE Some(Suma([k \in Indices(validos) |-> Val(validos[k].valor)])
                    \div Len(validos))

MinOf(S) == CHOOSE x \in S : \A y \in S : x <= y

(* 435-438: groupby("Ticker")[metrica].mean().dropna(), keys sorted *)
RECURSIVE MediasPorTicker(_, _)
MediasPorTicker(f, claves) ==
    IF claves = {} THEN <<>>
    ELSE LET t == MinOf(claves)
             DelTicker(r) == r.Ticker = t
             m == Media(SelectSeq(f, DelTicker))
         IN  (IF IsNull(m) THEN <<>> ELSE <<[Ticker |-> t, valor |-> Val(m)]>>)
                \o MediasPorTicker(f, claves \ {t})

agregar_por_periodo(tabla, nt) ==
    IF tabla = <<>> THEN <<>>
    ELSE LET df_filt == Filtrar(tabla, nt)
         IN  MediasPorTicker(df_filt, {df_filt[k].Ticker : k \in Indices(df_filt)})

(* The observation tables, bounded: two tickers, each with the rows of its *)
(* first 0..MaxTrim quarters (index 0 first), each cell null, 10 or 30.    *)
MaxTrim == 3
CeldasObs == {None, Some(120), Some(360)}
PERIODOS_FUND == {1, 2, 3, 4}

FilasTicker(t) ==
    UNION {{[k \in 1..m |-> [Ticker |-> t, Trimestre_idx |-> k - 1,
                              valor |-> c[k]]] : c \in [1..m -> CeldasObs]} :
           m \in 0..MaxTrim}

ObservationTables == {a \o b : a \in FilasTicker(1), b \in FilasTicker(2)}

InitAgg ==
    /\ pc = "agg_call"
    /\ df_raw \in ObservationTables
    /\ n_trimestres \in PERIODOS_FUND
    /\ serie = <<>>
    /\ IdleCalcular /\ IdleRank /\ IdleRanker /\ dias = 0 /\ IdlePortfolio
    /\ IdleResto

AgregarPorPeriodo ==
    /\ pc = "agg_call"
    /\ serie' = agregar_por_periodo(df_raw, n_trimestres)
    /\ pc' = "agg_ret"
    /\ UNCHANGED <<tickers, callback, precios, infos, df_mom, resultados, i,
                   progress, df, ranking, series, ascending, pct,
                   df_raw, n_trimestres, varsRanker, dias, varsPortfolio, varsResto>>

NextAgg == AgregarPorPeriodo

SpecAgg == InitAgg /\ [][NextAgg]_vars

(* Claims about _agregar_por_periodo, checked under SpecAgg *)

Agregado == pc = "agg_ret"
EnVentanaValidos(t) ==
    {k \in Indices(df_raw) : /\ df_raw[k].Ticker = t
                             /\ df_raw[k].Trimestre_idx < n_trimestres
                             /\ NotNull(df_raw[k].valor)}
RECURSIVE SumaCeldas(_)
SumaCeldas(K) ==
    IF K = {} THEN 0
    ELSE LET k == MinOf(K) IN Val(df_raw[k].valor) + SumaCeldas(K \ {k})
FilasSerie(t) == {k \in Indices(serie) : serie[k].Ticker = t}
EscenarioC ==
    <<[Ticker |-> 1, Trimestre_idx |-> 0, valor |-> Some(120)],
      [Ticker |-> 1, Trimestre_idx |-> 1, valor |-> None],
      [Ticker |-> 1, Trimestre_idx |-> 2, valor |-> Some(360)]>>

(* C14: for every window n in 1..4 the result holds, for each asset with a *)
(* non-null value at Trimestre_idx < n, exactly one entry, the mean of     *)
(* exactly those values; an asset without one has no entry; values 10, null *)
(* and 30 at indices 0, 1, 2 give 10 for n = 2.                             *)
C14_MediaEnVentana ==
    Agregado =>
        /\ \A t \in 1..2 :
              IF EnVentanaValidos(t) = {} THEN FilasSerie(t) = {}
              ELSE /\ Cardinality(FilasSerie(t)) = 1
                   /\ \A k \in FilasSerie(t) :
                         serie[k].valor * Cardinality(EnVentanaValidos(t))
                            = SumaCeldas(EnVentanaValidos(t))
        /\ \A k \in Indices(serie) : serie[k].Ticker \in 1..2
        /\ (df_raw = EscenarioC /\ n_trimestres = 2)
              => serie = <<[Ticker |-> 1, valor |-> 120]>>

C14_Witness ==
    /\ Agregado
    /\ n_trimestres = 2
    /\ Len(df_raw) = 5
    /\ SubSeq(df_raw, 1, 3) = EscenarioC
    /\ df_raw[4].Ticker = 2 /\ IsNull(df_raw[4].valor) /\ IsNull(df_raw[5].valor)
    /\ serie = <<[Ticker |-> 1, valor |-> 120]>>

-----------------------------------------------------------------------------
(* The rankers: _top_losers / _top_gainers (src/market_scanner_model.py    *)
(* 140-161) and _build_ranking (src/dividend_scanner_model.py 452-462).    *)
(*                                                                         *)
(* The series given to a ranker is a sequence of [Ticker, valor] without   *)
(* nulls (the callers drop them), valor in thousandths; the table returned *)
(* is [columns, rows] with the values rounded to 2 decimals (hundredths).  *)

TOP_N_MARKET == 10

(* the same with the direction flag ignored *)
AntesValorAscendente(a, b, asc) == a < b

(* sort_values(ascending=asc): a goes strictly before b *)
AntesValor(a, b, asc) == IF asc THEN a < b ELSE a > b

(* every order sort_values may give: the default kind is quicksort, which *)
(* is not stable, so equal values come in any order                       *)
RECURSIVE OrdenesSerie(_, _, _)
OrdenesSerie(s, S, asc) ==
    IF S = {} THEN {<<>>}
    ELSE LET cabeza == {k \in S : \A j \in S :
                           ~AntesValor(s[j].valor, s[k].valor, asc)}
         IN  {p \o r : p \in PermSeqs(cabeza),
                       r \in OrdenesSerie(s, S \ cabeza, asc)}

(* the same without the truncation *)
HeadTodo(s, k) == s

(* .head(n), n >= 0 *)
head(s, k) == SubSeq(s, 1, Min(k, Len(s)))

ColumnasVariacion == <<"Ticker", "Variacion (%)">>
col_label == "ROE (%)"
ColumnasRanking == <<"Ticker", "Nombre", col_label>>

(* _nombres_dict gives every ticker of the table a name (its number + 100 *)
(* here), so the fillna(df["Ticker"]) of line 459 never applies            *)
Nombre(t) == t + 100

(* 145-149 / 157-161: head(n), reset_index, the two columns, round(2) *)
TablaVariacion(s, orden, k) ==
    LET elegidos == head(orden, k)
    IN  [columns |-> ColumnasVariacion,
         rows |-> [r \in Indices(elegidos) |->
                      [Ticker |-> s[elegidos[r]].Ticker,
                       valor |-> Redondear(s[elegidos[r]].valor, 10)]]]

(* 456-462: head(n), reset_index, Nombre, round(2), the three columns *)
TablaRanking(s, orden, k) ==
    LET elegidos == head(orden, k)
    IN  [columns |-> ColumnasRanking,
         rows |-> [r \in Indices(elegidos) |->
                      [Ticker |-> s[elegidos[r]].Ticker,
                       Nombre |-> Nombre(s[elegidos[r]].Ticker),
                       valor |-> Redondear(s[elegidos[r]].valor, 10)]]]

(* 142-149 and 154-161: every table the call may return *)
top_variacion(s, k, asc) ==
    IF s = <<>> THEN {[columns |-> ColumnasVariacion, rows |-> <<>>]}
    ELSE {TablaVariacion(s, orden, k) : orden \in OrdenesSerie(s, Indices(s), asc)}

(* 452-462: every table the call may return *)
build_ranking(s, k, asc) ==
    IF s = <<>> THEN {[columns |-> ColumnasRanking, rows |-> <<>>]}
    ELSE {TablaRanking(s, orden, k) : orden \in OrdenesSerie(s, Indices(s), asc)}

(* The series, bounded: up to MaxSerie entries, tickers 1, 2, ... in       *)
(* enumeration order, values -1.000, 1.234 or 1.236.                       *)
MaxSerie == 4
ValoresSerie == {-1000, 1234, 1236}
SeriesRanker ==
    UNION {{[k \in 1..m |-> [Ticker |-> k, valor |-> v[k]]] :
                v \in [1..m -> ValoresSerie]} : m \in 0..MaxSerie}

(* the rankers are called on one series, by the market scanner (losers and *)
(* gainers) or by the fundamentals scanner (top and bottom)                *)
InitRanker ==
    /\ pc \in {"rank_market", "rank_fund"}
    /\ variacion \in SeriesRanker
    /\ serie = variacion
    /\ top_n \in (0..(MaxSerie + 1)) \cup {TOP_N_MARKET}
    /\ losers = None /\ gainers = None
    /\ top = None /\ bottom = None
    /\ df_raw = <<>> /\ n_trimestres = 0
    /\ IdleCalcular /\ IdleRank /\ dias = 0 /\ IdlePortfolio
    /\ IdleResto

TopLosers ==
    /\ pc = "rank_market"
    /\ losers = None
    /\ \E t \in top_variacion(variacion, top_n, TRUE) : losers' = Some(t)
    /\ UNCHANGED <<pc, tickers, callback, precios, infos, df_mom, resultados,
                   i, progress, df, ranking, series, ascending, pct, varsAgg,
                   variacion, top_n, gainers, top, bottom, dias, varsPortfolio, varsResto>>

TopGainers ==
    /\ pc = "rank_market"
    /\ gainers = None
    /\ \E t \in top_variacion(variacion, top_n, FALSE) : gainers' = Some(t)
    /\ UNCHANGED <<pc, tickers, callback, precios, infos, df_mom, resultados,
                   i, progress, df, ranking, series, ascending, pct, varsAgg,
                   variacion, top_n, losers, top, bottom, dias, varsPortfolio, varsResto>>

(* dividend_scanner_model.py 552 *)
BuildTop ==
    /\ pc = "rank_fund"
    /\ top = None
    /\ \E t \in build_ranking(serie, top_n, FALSE) : top' = Some(t)
    /\ UNCHANGED <<pc, tickers, callback, precios, infos, df_mom, resultados,
                   i, progress, df, ranking, series, ascending, pct, varsAgg,
                   variacion, top_n, losers, gainers, bottom, dias,
                   varsPortfolio, varsResto>>

(* dividend_scanner_model.py 553 *)
BuildBottom ==
    /\ pc = "rank_fund"
    /\ bottom = None
    /\ \E t \in build_ranking(serie, top_n, TRUE) : bottom' = Some(t)
    /\ UNCHANGED <<pc, tickers, callback, precios, infos, df_mom, resultados,
                   i, progress, df, ranking, series, ascending, pct, varsAgg,
                   variacion, top_n, losers, gainers, top, dias, varsPortfolio, varsResto>>

NextRanker == TopLosers \/ TopGainers \/ BuildTop \/ BuildBottom

SpecRanker == InitRanker /\ [][NextRanker]_vars

(* Claims about the rankers, checked under SpecRanker *)

Llamado(x) == NotNull(x)
Filas(x) == Val(x).rows
TickersDe(x) == [r \in Indices(Filas(x)) |-> Filas(x)[r].Ticker]
Entrada(s, t) == s[CHOOSE k \in Indices(s) : s[k].Ticker = t]
HayEmpateEn(s) ==
    \E j, k \in Indices(s) : j # k /\ s[j].valor = s[k].valor
EmpatadoEn(s, t) ==
    \E k \in Indices(s) : s[k].Ticker # t /\ s[k].valor = Entrada(s, t).valor

(* x is the table of the first min(top_n, len) entries of s in sorted order *)
PrimerosOrdenados(x, s, asc, cols) ==
    /\ Val(x).columns = cols
    /\ Len(Filas(x)) = (IF top_n < Len(s) THEN top_n ELSE Len(s))
    /\ \A r \in Indices(Filas(x)) :
          /\ \E k \in Indices(s) : s[k].Ticker = Filas(x)[r].Ticker
          /\ Filas(x)[r].valor
                = Redondear(Entrada(s, Filas(x)[r].Ticker).valor, 10)
          /\ \A q \in Indices(Filas(x)) :
                q # r => Filas(x)[q].Ticker # Filas(x)[r].Ticker
          /\ \A k \in Indices(s) :
                (\/ \E q \in Indices(Filas(x)) :
                        q > r /\ Filas(x)[q].Ticker = s[k].Ticker
                 \/ \A q \in Indices(Filas(x)) :
                        Filas(x)[q].Ticker # s[k].Ticker)
                => IF asc
                   THEN Entrada(s, Filas(x)[r].Ticker).valor <= s[k].valor
                   ELSE Entrada(s, Filas(x)[r].Ticker).valor >= s[k].valor

(* C15: each ranker returns exactly the first min(N, number of entries)    *)
(* entries of the sorted series, each asset once and no other row; for an  *)
(* empty series it returns an empty ranking with its columns.              *)
C15_Truncado ==
    /\ Llamado(losers) =>
          PrimerosOrdenados(losers, variacion, TRUE, <<"Ticker", "Variacion (%)">>)
    /\ Llamado(gainers) =>
          PrimerosOrdenados(gainers, variacion, FALSE, <<"Ticker", "Variacion (%)">>)
    /\ Llamado(top) =>
          PrimerosOrdenados(top, serie, FALSE, <<"Ticker", "Nombre", "ROE (%)">>)
    /\ Llamado(bottom) =>
          PrimerosOrdenados(bottom, serie, TRUE, <<"Ticker", "Nombre", "ROE (%)">>)

C15_Witness ==
    /\ Llamado(losers) /\ Llamado(gainers)
    /\ Len(variacion) = 3
    /\ top_n = TOP_N_MARKET
    /\ Len(Filas(losers)) = 3 /\ Len(Filas(gainers)) = 3

Comunes ==
    {Filas(losers)[r].Ticker : r \in Indices(Filas(losers))}
        \cap {Filas(gainers)[r].Ticker : r \in Indices(Filas(gainers))}

(* C16 as stated: the losers and the gainers of one series share no asset  *)
(* unless N >= universe size / 2 and values tie.                           *)
C16_Original ==
    (Llamado(losers) /\ Llamado(gainers) /\ Comunes # {}) =>
        (2 * top_n >= Len(variacion) /\ HayEmpateEn(variacion))

(* C16 amended: an asset is among both the losers and the gainers of one   *)
(* series only if 2N exceeds the universe size or its value ties with      *)
(* another entry's value.                                                  *)
C16_SinSolape ==
    (Llamado(losers) /\ Llamado(gainers)) =>
        \A t \in Comunes :
            2 * top_n > Len(variacion) \/ EmpatadoEn(variacion, t)

C16_Witness ==
    /\ Llamado(losers) /\ Llamado(gainers)
    /\ Len(variacion) = 4 /\ top_n = 1
    /\ Comunes # {}

(* C17 as stated: without truncation the descending ranking is the exact   *)
(* reverse of the ascending ranking as a sequence of assets, equal values  *)
(* included.                                                               *)
C17_Original ==
    top_n >= Len(variacion) =>
        /\ (Llamado(losers) /\ Llamado(gainers)) =>
              TickersDe(gainers) = Invertir(TickersDe(losers))
        /\ (Llamado(top) /\ Llamado(bottom)) =>
              TickersDe(top) = Invertir(TickersDe(bottom))

(* C17 amended: without truncation, and when no two values of the series   *)
(* are equal, the descending ranking is the exact reverse of the ascending *)
(* ranking as a sequence of assets.                                        *)
C17_ReversoSinEmpates ==
    (top_n >= Len(variacion) /\ ~HayEmpateEn(variacion)) =>
        /\ (Llamado(losers) /\ Llamado(gainers)) =>
              TickersDe(gainers) = Invertir(TickersDe(losers))
        /\ (Llamado(top) /\ Llamado(bottom)) =>
              TickersDe(top) = Invertir(TickersDe(bottom))

C17_Witness ==
    /\ Llamado(top) /\ Llamado(bottom)
    /\ Len(serie) = 3 /\ top_n = 3
    /\ ~HayEmpateEn(serie)
    /\ TickersDe(top) = Invertir(TickersDe(bottom))

-----------------------------------------------------------------------------
(* _calcular_variacion and MarketScanner.escanear:                         *)
(* src/market_scanner_model.py 118-137 and 184-210.                        *)
(*                                                                         *)
(* Here precios is the panel _descargar_precios returned: a sequence of    *)
(* rows [fecha, celdas] in ascending date order, fecha in days and celdas  *)
(* one nullable close per column (tickers 1 and 2); a column without any   *)
(* close was dropped at line 111, and the empty panel is <<>>.  A change   *)
(* is a percentage in thousandths, the unrounded quotient of line 136.     *)

PERIODOS == {30, 90, 180, 365}

(* 128-129: precios[precios.index <= fecha_objetivo] *)
Historico(panel, objetivo) ==
    LET Anterior(r) == r.fecha <= objetivo IN SelectSeq(panel, Anterior)

(* 136: ((precio_actual - precio_pasado) / precio_pasado) * 100, per cell; *)
(* NaN when either cell is NaN                                             *)
VariacionCelda(actual, pasado) ==
    IF IsNull(actual) \/ IsNull(pasado) THEN None
    ELSE Some(Redondear((Val(actual) - Val(pasado)) * 100000, Val(pasado)))

(* 137: dropna() keeps the columns with a value, in column order *)
RECURSIVE SinNulos(_, _)
SinNulos(v, c) ==
    IF c = 0 THEN <<>>
    ELSE SinNulos(v, c - 1)
            \o (IF IsNull(v[c]) THEN <<>> ELSE <<[Ticker |-> c, valor |-> Val(v[c])]>>)

calcular_variacion(panel, d) ==
    IF panel = <<>> THEN <<>>
    ELSE LET precio_actual  == panel[Len(panel)].celdas
             fecha_objetivo == panel[Len(panel)].fecha - d
             historico      == Historico(panel, fecha_objetivo)
         IN  IF historico = <<>> THEN <<>>
             ELSE LET precio_pasado == historico[Len(historico)].celdas
                  IN  SinNulos([c \in Indices(precio_actual) |->
                                   VariacionCelda(precio_actual[c], precio_pasado[c])],
                               Len(precio_actual))

(* The panels, bounded: up to MaxFilas trading days 50 days apart, two     *)
(* columns, each cell null, 80 or 100, no column entirely null.            *)
MaxFilas == 3
CeldasPrecio == {None, Some(80), Some(100)}
Fecha(k) == 50 * (k - 1)

PricePanels ==
    UNION {{[k \in 1..m |-> [fecha |-> Fecha(k), celdas |-> c[k]]] :
                c \in {x \in [1..m -> [1..2 -> CeldasPrecio]] :
                          \A col \in 1..2 : \E k \in 1..m : NotNull(x[k][col])}} :
           m \in 0..MaxFilas}

(* escanear(dias, modo): the download, the change series, then the ranking *)
(* of the requested modo with the default n = TOP_N                        *)
InitVariacion ==
    /\ pc = "var_call"
    /\ precios \in PricePanels
    /\ dias \in PERIODOS
    /\ variacion = <<>>
    /\ top_n = TOP_N_MARKET
    /\ losers = None /\ gainers = None
    /\ top = None /\ bottom = None
    /\ IdleMultifactor /\ IdleRank /\ IdleAgg /\ IdlePortfolio
    /\ IdleResto

CalcularVariacion ==
    /\ pc = "var_call"
    /\ variacion' = calcular_variacion(precios, dias)
    /\ pc' = "rank_market"
    /\ UNCHANGED <<tickers, callback, precios, infos, df_mom, resultados, i,
                   progress, df, ranking, series, ascending, pct, varsAgg,
                   top_n, losers, gainers, top, bottom, dias, varsPortfolio, varsResto>>

NextVariacion == CalcularVariacion \/ TopLosers \/ TopGainers

SpecVariacion == InitVariacion /\ [][NextVariacion]_vars

(* Claims about _calcular_variacion, checked under SpecVariacion *)

Calculada == pc = "rank_market"
Objetivo == precios[Len(precios)].fecha - dias
ObservacionesHasta(c) ==
    {k \in Indices(precios) : precios[k].fecha <= Objetivo
                                /\ NotNull(precios[k].celdas[c])}
MaxOf(S) == CHOOSE x \in S : \A y \in S : x >= y

(* C18 as stated: every asset with an observation at or before the         *)
(* lookback boundary (and a price on the last day of the panel) is in the  *)
(* change series, with (latest price - p0) / p0 * 100 where p0 is its last *)
(* non-null observation at or before the boundary.                         *)
C18_UltimaObservacion ==
    (Calculada /\ precios # <<>>) =>
        \A c \in 1..2 :
            (ObservacionesHasta(c) # {}
                /\ NotNull(precios[Len(precios)].celdas[c]))
            => \E k \in Indices(variacion) :
                  /\ variacion[k].Ticker = c
                  /\ variacion[k].valor * Val(precios[MaxOf(ObservacionesHasta(c))].celdas[c])
                        = (Val(precios[Len(precios)].celdas[c])
                             - Val(precios[MaxOf(ObservacionesHasta(c))].celdas[c]))
                          * 100000

-----------------------------------------------------------------------------
(* PortfolioAnalyzer (src/portfolio_model.py) and the "analizar" handler   *)
(* of the portfolio tab (src/app_portfolio.py 287-310).                    *)
(*                                                                         *)
(* pesos_input maps each selected ticker to its slider weight, counted in  *)
(* slider steps of 5 (percent / 5).  Here precios and retornos are tables  *)
(* [columns, rows], a row being a function from the columns; daily returns *)
(* are in whole percent (exact for the closes 80 and 100).  A real number  *)
(* that the code gets through a square root or a quotient is kept exactly: *)
(* NaN is None and Raiz(signo, num, den) is signo * sqrt(num / den), with  *)
(* den = 0 for an infinity; a variance is the fraction [num, den].  The    *)
(* binary rounding error of float64 is not modelled.                       *)

Raiz(signo, num, den) == Some([signo |-> signo, num |-> num, den |-> den])
Cero == Raiz(0, 0, 1)
Signo(x) == IF x > 0 THEN 1 ELSE IF x < 0 THEN -1 ELSE 0

(* 74: dropna(axis=1, how="all") then dropna() *)
dropna_precios(data, S) ==
    LET cols == {t \in S : \E k \in Indices(data) : NotNull(data[k][t])}
        Completa(row) == \A t \in cols : NotNull(row[t])
        filas == SelectSeq(data, Completa)
    IN  [columns |-> cols,
         rows |-> [k \in Indices(filas) |-> [t \in cols |-> Val(filas[k][t])]]]

(* 75: pct_change().dropna(), in percent *)
pct_change(p) ==
    [columns |-> p.columns,
     rows |-> [k \in 1..(Len(p.rows) - 1) |->
                  [t \in p.columns |->
                      Redondear((p.rows[k + 1][t] - p.rows[k][t]) * 100,
                                p.rows[k][t])]]]

(* sample statistics of a sequence x of T numbers: T * sum(x^2) - sum(x)^2 *)
(* is T * (T - 1) times the variance (ddof = 1)                            *)
SumaCuadrados(x) == Suma([k \in Indices(x) |-> x[k] * x[k]])
VarNum(x) == Len(x) * SumaCuadrados(x) - Suma(x) * Suma(x)

(* 80, 85: mean * 252, then * 100 rounded to 2 decimals (hundredths of %) *)
RetornoAnual(x) ==
    IF Len(x) = 0 THEN None ELSE Some(Redondear(25200 * Suma(x), Len(x)))

(* 81: (std * sqrt(252)) squared, in percent^2; NaN with fewer than 2 rows *)
Volatilidad2(x) ==
    IF Len(x) < 2 THEN None
    ELSE Some([num |-> 252 * VarNum(x), den |-> Len(x) * (Len(x) - 1)])

(* 82: retorno_anual / volatilidad, a float division of two Series: x / 0 *)
(* is an infinity, 0 / 0 and anything with NaN is NaN                     *)
SharpeIndividual(x) ==
    IF Len(x) < 2 THEN None
    ELSE IF VarNum(x) = 0
         THEN (IF Suma(x) = 0 THEN None ELSE Raiz(Signo(Suma(x)), 1, 0))
    ELSE IF Suma(x) = 0 THEN Cero
    ELSE Raiz(Signo(Suma(x)), 252 * Suma(x) * Suma(x) * (Len(x) - 1),
              Len(x) * VarNum(x))

(* 78-89 *)
metricas_individuales(ret) ==
    [t \in ret.columns |->
        LET x == [k \in Indices(ret.rows) |-> ret.rows[k][t]]
        IN  [retorno_anual |-> RetornoAnual(x),
             volatilidad2  |-> Volatilidad2(x),
             sharpe        |-> SharpeIndividual(x)]]

RECURSIVE SumaPesos(_, _)
SumaPesos(pesos, S) ==
    IF S = {} THEN 0
    ELSE LET t == MinOf(S) IN pesos[t] + SumaPesos(pesos, S \ {t})

(* Exact rationals: [num, den] with den > 0, in lowest terms. *)
Abs(x) == IF x < 0 THEN -x ELSE x
RECURSIVE MCD(_, _)
MCD(a, b) == IF b = 0 THEN a ELSE MCD(b, a % b)
Frac(n, d) == LET g == MCD(Abs(n), d) IN [num |-> n \div g, den |-> d \div g]
Por(a, b) ==
    LET g1 == MCD(Abs(a.num), b.den)
        g2 == MCD(Abs(b.num), a.den)
    IN  [num |-> (a.num \div g1) * (b.num \div g2),
         den |-> (a.den \div g2) * (b.den \div g1)]
(* a / b < c / d, by comparing integer parts and then the remainders *)
RECURSIVE MenorQue(_, _, _, _)
MenorQue(a, b, c, d) ==
    IF a \div b # c \div d THEN a \div b < c \div d
    ELSE IF c % d = 0 THEN FALSE
    ELSE IF a % b = 0 THEN TRUE
    ELSE MenorQue(d, c % d, b, a % b)
Menor(x, y) == MenorQue(x.num, x.den, y.num, y.den)

RECURSIVE MCDPesos(_, _)
MCDPesos(pesos, S) ==
    IF S = {} THEN 0
    ELSE LET t == MinOf(S) IN MCD(pesos[t], MCDPesos(pesos, S \ {t}))

(* the weights used as given, without the division of line 108 *)
NormalizarSinDividir(pesos, validos) ==
    [t \in validos |-> Some([num |-> pesos[t], den |-> 1])]

(* 104-108: the weights of the tickers present in retornos, divided by    *)
(* their sum; 0 / 0 is NaN.  The quotients are written over their lowest  *)
(* common denominator.                                                     *)
Normalizar(pesos, validos) ==
    LET total == SumaPesos(pesos, validos)
        g     == MCDPesos(pesos, validos)
    IN  [t \in validos |->
            IF total = 0 THEN None
            ELSE Some([num |-> pesos[t] \div g, den |-> total \div g])]

(* 119: (ret * w).sum(axis=1) of one row, times the denominator of w; sum *)
(* skips the NaN products                                                  *)
RECURSIVE Ponderado(_, _, _)
Ponderado(w, row, S) ==
    IF S = {} THEN 0
    ELSE LET t == MinOf(S)
         IN  (IF IsNull(w[t]) THEN 0 ELSE Val(w[t]).num * row[t])
                + Ponderado(w, row, S \ {t})

(* 120: (1 + retornos_port).cumprod() * 100, X[k] / (100 * D) being the   *)
(* portfolio's return of day k                                             *)
RECURSIVE cumprod(_, _, _)
cumprod(X, D, k) ==
    IF k = 0 THEN Frac(100, 1)
    ELSE Por(cumprod(X, D, k - 1), Frac(100 * D + X[k], 100 * D))

(* 123: evolucion.cummax() *)
RECURSIVE cummax(_, _)
cummax(e, k) ==
    IF k = 1 THEN e[1]
    ELSE LET m == cummax(e, k - 1) IN IF Menor(m, e[k]) THEN e[k] ELSE m

(* 124: (evolucion - rolling_max) / rolling_max *)
Drawdown(e) ==
    [k \in Indices(e) |->
        LET m == cummax(e, k)
            q == Por(e[k], [num |-> m.den, den |-> m.num])
        IN  [num |-> q.num - q.den, den |-> q.den]]

(* 125: drawdown.min() *)
RECURSIVE MinFrac(_, _)
MinFrac(d, k) ==
    IF k = 1 THEN d[1]
    ELSE LET m == MinFrac(d, k - 1) IN IF Menor(d[k], m) THEN d[k] ELSE m

(* 125, 131: drawdown.min() * 100 rounded to 2 decimals (hundredths of %); *)
(* the minimum of an empty series is NaN                                   *)
MaxDrawdown(e) ==
    IF Len(e) = 0 THEN None
    ELSE LET m == MinFrac(Drawdown(e), Len(e))
         IN  Some(Redondear(10000 * m.num, m.den))

(* 92-134: the returned dict, with w and the square of volatilidad.  W is *)
(* w times its denominator D.                                              *)
analizar_portafolio(ret, pesos) ==
    LET validos == {t \in DOMAIN pesos : t \in ret.columns}
        w       == Normalizar(pesos, validos)
        nan     == \E t \in validos : IsNull(w[t])
        D       == IF nan THEN 1 ELSE Val(w[MinOf(validos)]).den
        X       == [k \in Indices(ret.rows) |-> Ponderado(w, ret.rows[k], validos)]
        T       == Len(X)
        evolucion == [k \in 1..T |-> cumprod(X, D, k)]
    IN  [w |-> w,
         retorno_anual |->
            IF nan \/ T = 0 THEN None
            ELSE Some(Redondear(25200 * Suma(X), D * T)),
         volatilidad2 |->
            IF nan \/ T < 2 THEN None
            ELSE Some([num |-> 252 * VarNum(X), den |-> T * (T - 1) * D * D]),
         sharpe |->
            IF nan \/ T < 2 THEN Cero
            ELSE IF VarNum(X) = 0 \/ Suma(X) = 0 THEN Cero
            ELSE Raiz(Signo(Suma(X)), 252 * Suma(X) * Suma(X) * (T - 1),
                      T * VarNum(X)),
         max_drawdown |-> MaxDrawdown(evolucion),
         evolucion |-> evolucion]

(* The sidebar and the provider, bounded: any selection among two assets, *)
(* each slider at 0, 5 or 10 percent; the download covers 1..MaxDias      *)
(* trading days, each close null, 80 or 100, and at least one selected    *)
(* ticker has a close.                                                     *)
MaxDias == 3
ACTIVOS == {1, 2}
PesoSteps == {0, 1, 2}
Selecciones == UNION {[S -> PesoSteps] : S \in SUBSET ACTIVOS}
RawPanels(S) ==
    UNION {{d \in [1..m -> [S -> CeldasPrecio]] :
                \E t \in S, k \in 1..m : NotNull(d[k][t])} : m \in 1..MaxDias}

InitPortfolio ==
    /\ pc = "sidebar"
    /\ pesos_input \in Selecciones
    /\ precios = <<>>
    /\ retornos = <<>>
    /\ resultado = None
    /\ metricas = None
    /\ IdleMultifactor /\ IdleRank /\ IdleAgg /\ IdleRanker /\ dias = 0
    /\ IdleResto

(* app_portfolio.py 289-305: the two guards, then the analyzer is built    *)
(* (58-75) and asked for the portfolio and the individual metrics.         *)
(* pesos_dec = p / 100 (296) rescales every weight by the same factor,     *)
(* which the quotient w / w.sum() cancels.                                 *)
Analizar ==
    /\ pc = "sidebar"
    /\ IF DOMAIN pesos_input = {}
          \/ SumaPesos(pesos_input, DOMAIN pesos_input) = 0
       THEN /\ pc' = "aviso"
            /\ UNCHANGED <<precios, retornos, resultado, metricas>>
       ELSE /\ \E data \in RawPanels(DOMAIN pesos_input) :
                  precios' = dropna_precios(data, DOMAIN pesos_input)
            /\ retornos' = pct_change(precios')
            /\ resultado' = Some(analizar_portafolio(retornos', pesos_input))
            /\ metricas' = Some(metricas_individuales(retornos'))
            /\ pc' = "fin"
    /\ UNCHANGED <<tickers, callback, infos, df_mom, resultados, i, progress,
                   df, ranking, series, ascending, pct, varsAgg, varsRanker,
                   dias, pesos_input, varsResto>>

NextPortfolio == Analizar

SpecPortfolio == InitPortfolio /\ [][NextPortfolio]_vars

(* Claims about the portfolio analyzer, checked under SpecPortfolio *)

Analizado == pc = "fin"
VolatilidadCero(v) == NotNull(v) /\ Val(v).num = 0

(* C19 as stated: whenever the annualized volatility of an asset, or of    *)
(* the portfolio, is 0, the Sharpe ratio reported for it is 0.             *)
C19_SharpeCero ==
    Analizado =>
        /\ \A t \in retornos.columns :
              VolatilidadCero(Val(metricas)[t].volatilidad2)
                 => Val(metricas)[t].sharpe = Cero
        /\ VolatilidadCero(Val(resultado).volatilidad2)
              => Val(resultado).sharpe = Cero

(* C20 as stated: whenever analizar_portafolio has computed metrics, the   *)
(* weights of the assets present in the returns are defined and sum to 1,  *)
(* and the weights given for those assets did not sum to 0.                *)
C20_PesosNormalizados ==
    Analizado =>
        LET w == Val(resultado).w IN
        /\ SumaPesos(pesos_input, DOMAIN pesos_input \cap retornos.columns) # 0
        /\ \A t \in DOMAIN w : NotNull(w[t]) /\ Val(w[t]).den > 0
        /\ \A t \in DOMAIN w :
              SumaPesos([u \in DOMAIN w |-> Val(w[u]).num], DOMAIN w) = Val(w[t]).den

(* the weight vector multiplied by a positive constant *)
MaxEscala == 3
Escalar(pesos, c) == [t \in DOMAIN pesos |-> c * pesos[t]]

(* C21: for the returns downloaded and the weights given, every weight     *)
(* vector c * w (c = 1..MaxEscala) makes analizar_portafolio return the    *)
(* same retorno_anual, volatilidad, sharpe, max_drawdown and cumulative    *)
(* series as w.                                                            *)
C21_InvarianteEscala ==
    Analizado =>
        \A c \in 1..MaxEscala :
            analizar_portafolio(retornos, Escalar(pesos_input, c)) = Val(resultado)

(* two assets with different positive weights, two days of returns and a   *)
(* portfolio that gains and then loses value                               *)
C21_Witness ==
    /\ Analizado
    /\ retornos.columns = {1, 2}
    /\ pesos_input[1] = 1 /\ pesos_input[2] = 2
    /\ Len(retornos.rows) = 2
    /\ Val(resultado).retorno_anual = Some(42000)
    /\ Val(resultado).max_drawdown = Some(-1333)
    /\ analizar_portafolio(retornos, Escalar(pesos_input, MaxEscala)) = Val(resultado)

NoDecreciente(e) == \A k \in 1..(Len(e) - 1) : ~Menor(e[k + 1], e[k])

(* C22 as stated: the max_drawdown returned by analizar_portafolio is a    *)
(* number <= 0, and it is 0 exactly when the cumulative series never       *)
(* decreases.                                                              *)
C22_DrawdownNoPositivo ==
    Analizado =>
        /\ NotNull(Val(resultado).max_drawdown)
        /\ Val(Val(resultado).max_drawdown) <= 0
        /\ Val(Val(resultado).max_drawdown) = 0
              <=> NoDecreciente(Val(resultado).evolucion)

(* C23 as stated: the analyzer returns metrics only for a Return Series    *)
(* with at least one row; on an empty one it fails and returns nothing.    *)
C23_FallaSinRetornos == Analizado => Len(retornos.rows) > 0

-----------------------------------------------------------------------------
(* Further claims about _agregar_por_periodo, checked under SpecAgg *)

TickersSerie(s) == {s[k].Ticker : k \in Indices(s)}

(* C30: every asset in the output for the window n (n = 1, 2, 3) is also   *)
(* in the output for the window n + 1, on the same observation table.      *)
C30_VentanaMonotona ==
    (Agregado /\ n_trimestres < 4) =>
        TickersSerie(serie)
            \subseteq TickersSerie(agregar_por_periodo(df_raw, n_trimestres + 1))

(* asset 1 has a value in the first quarter and a null in the second, so   *)
(* the longer window adds a null to its group; asset 2 enters only with    *)
(* the longer window                                                       *)
C30_Witness ==
    /\ Agregado
    /\ n_trimestres = 1
    /\ Len(df_raw) = 4
    /\ df_raw[1].Ticker = 1 /\ NotNull(df_raw[1].valor) /\ IsNull(df_raw[2].valor)
    /\ df_raw[3].Ticker = 2 /\ IsNull(df_raw[3].valor) /\ NotNull(df_raw[4].valor)
    /\ TickersSerie(serie) = {1}
    /\ TickersSerie(agregar_por_periodo(df_raw, 2)) = {1, 2}

-----------------------------------------------------------------------------
(* Further claims about calcular, checked under Spec *)

Listo(k) == progress[k] = 100 * tickers

(* C28: with a callback, a finished run has reported 1.0 exactly when its  *)
(* table is non-empty, and then once and as the last event; a run that     *)
(* returns an empty table has 0.92 as its last event; before the return    *)
(* 1.0 is never reported.                                                  *)
C28_ListoSoloConTabla ==
    callback =>
        /\ ~Fin => \A k \in Indices(progress) : ~Listo(k)
        /\ (Fin /\ ranking # <<>>) =>
              /\ Listo(Len(progress))
              /\ \A k \in 1..(Len(progress) - 1) : ~Listo(k)
        /\ (Fin /\ ranking = <<>>) =>
              /\ progress[Len(progress)] = 92 * tickers
              /\ \A k \in Indices(progress) : ~Listo(k)

(* a run whose two datasets are non-empty and share no ticker *)
C28_Witness ==
    /\ Fin /\ callback
    /\ df_mom # <<>> /\ resultados # <<>>
    /\ ranking = <<>>
    /\ progress[Len(progress)] = 92 * tickers

-----------------------------------------------------------------------------
(* FundamentalsScanner: src/dividend_scanner_model.py 470-556, with the    *)
(* bulk download _obtener_fundamentals_bulk (259-390).                     *)
(*                                                                         *)
(* The scanner has two tickers.  The provider's answer for a ticker is     *)
(* None when the retrieval raises (the except branch at 381) and otherwise *)
(* the rows the loop body appends for it: one per quarter, or the single   *)
(* row built from info.  _df_raw is None or Some(table).  A call is one    *)
(* step; metodo, callback, previo, descargas, infos, progress and salida   *)
(* describe the last call.  salida holds the keys of the rankings returned *)
(* (those of _escanear_metrica on the stored table), or the KeyError that  *)
(* _nombres_dict raises on a table without columns.                        *)

(* the same test without the .empty part *)
FaltaSoloNone(t) == IsNull(t)

(* 477: self._df_raw is None or self._df_raw.empty *)
Falta(t) == IsNull(t) \/ Val(t) = <<>>

(* the rows of one ticker: 1..MaxTrim quarters, the metric null or 10 *)
FilasBulk(t) ==
    UNION {{[k \in 1..m |-> [Ticker |-> t, Trimestre_idx |-> k - 1,
                              valor |-> c[k]]] : c \in [1..m -> {None, Some(120)}]} :
           m \in 1..MaxTrim}
RespuestasBulk(t) == {None} \cup {Some(f) : f \in FilasBulk(t)}

(* the loop that stops at the first failed retrieval *)
RECURSIVE BulkHastaFallo(_, _)
BulkHastaFallo(answers, n) ==
    IF n = 0 THEN <<>>
    ELSE IF \E k \in 1..n : IsNull(answers[k]) THEN BulkHastaFallo(answers, n - 1)
    ELSE BulkHastaFallo(answers, n - 1) \o Val(answers[n])

(* 262-382: the rows after the first n tickers *)
RECURSIVE BulkFilas(_, _)
BulkFilas(answers, n) ==
    IF n = 0 THEN <<>>
    ELSE BulkFilas(answers, n - 1)
            \o (IF IsNull(answers[n]) THEN <<>> ELSE Val(answers[n]))

(* 384-385: (i + 1) / total after every ticker, over 100 * total *)
ReportesBulk(answers, cb) ==
    IF cb THEN [k \in 1..Len(answers) |-> 100 * k] ELSE <<>>

(* 488-530 with 475-484 and 534-556: _asegurar_datos, then the rankings *)
LlamadaFund(m, claves) ==
    /\ pc = "fund"
    /\ \E cb \in BOOLEAN :
        /\ callback' = cb
        /\ IF Falta(_df_raw)
           THEN \E answers \in RespuestasBulk(1) \X RespuestasBulk(2) :
                   /\ infos' = answers
                   /\ _df_raw' = Some(BulkFilas(answers, Len(answers)))
                   /\ progress' = ReportesBulk(answers, cb)
                   /\ descargas' = 1
           ELSE /\ infos' = <<>>
                /\ _df_raw' = _df_raw
                /\ progress' = <<>>
                /\ descargas' = 0
    /\ previo' = _df_raw
    /\ metodo' = m
    /\ salida' = IF Val(_df_raw') = <<>>
                 THEN Some([error |-> "KeyError", claves |-> <<>>])
                 ELSE Some([error |-> "", claves |-> claves])
    /\ UNCHANGED <<pc, tickers, precios, df_mom, resultados, i, df, ranking,
                   series, ascending, pct, varsAgg, varsRanker, dias,
                   varsPortfolio, modo, tipo_pe, escaneo>>

escanear_per == LlamadaFund("escanear_per", <<"PER">>)
escanear_roe == LlamadaFund("escanear_roe", <<"ROE_pct">>)
escanear_margen == LlamadaFund("escanear_margen", <<"Margen_Neto_pct">>)
escanear_todo == LlamadaFund("escanear_todo", <<"per", "roe", "margen">>)

InitFund ==
    /\ pc = "fund"
    /\ tickers = 2
    /\ callback = FALSE
    /\ precios = <<>>
    /\ infos = <<>>
    /\ df_mom = <<>>
    /\ resultados = <<>>
    /\ i = 0
    /\ progress = <<>>
    /\ df = <<>>
    /\ ranking = <<>>
    /\ IdleRank /\ IdleAgg /\ IdleRanker /\ dias = 0 /\ IdlePortfolio
    /\ IdleResto

NextFund == escanear_per \/ escanear_roe \/ escanear_margen \/ escanear_todo

SpecFund == InitFund /\ [][NextFund]_vars

(* Claims about FundamentalsScanner, checked under SpecFund *)

LlamadoFund == metodo # ""
Guardada(t) == NotNull(t) /\ Val(t) # <<>>

(* C24 as stated: every call builds its observation table itself; none is  *)
(* served from a table that an earlier call on the scanner left behind.    *)
C24_SinCache == LlamadoFund => descargas = 1

(* C27: the bulk download runs during a call exactly when the stored table *)
(* was absent or empty at its start, and at most once (also in             *)
(* escanear_todo); a non-empty stored table is the same after the call;    *)
(* a call served from the stored table reports nothing to the callback,    *)
(* and a downloading call reports once per ticker when given a callback.   *)
C27_DescargaSiFalta ==
    LlamadoFund =>
        /\ descargas \in {0, 1}
        /\ descargas = 1 <=> (previo = None \/ previo = Some(<<>>))
        /\ Guardada(previo) => _df_raw = previo
        /\ descargas = 0 => progress = <<>>
        /\ (descargas = 1 /\ callback) => Len(progress) = tickers

(* escanear_todo with a callback, served from the table of an earlier call *)
C27_Witness ==
    /\ metodo = "escanear_todo"
    /\ callback
    /\ Guardada(previo)
    /\ _df_raw = previo
    /\ descargas = 0
    /\ progress = <<>>
    /\ Val(salida).claves = <<"per", "roe", "margen">>

-----------------------------------------------------------------------------
(* The two per-ticker retrieval loops together: a run of calcular, or a    *)
(* FundamentalsScanner.                                                    *)

InitBucles == Init \/ InitFund

NextBucles == Next \/ NextFund

SpecBucles == InitBucles /\ [][NextBucles]_vars

(* Claims about the retrieval loops, checked under SpecBucles *)

EnBucleFund == pc \in {"fundamentals", "scores", "fin"}
BulkDescargado == pc = "fund" /\ descargas = 1
FilasDelTicker(tabla, t) == LET DelTicker(r) == r.Ticker = t IN SelectSeq(tabla, DelTicker)

(* C26: in both loops every ticker is tried, in list order; a ticker whose *)
(* retrieval fails contributes no row, every other ticker contributes      *)
(* exactly its rows, in list order; with a callback every ticker's step is *)
(* reported, failed or not; and the result is empty exactly when every     *)
(* ticker failed.                                                          *)
C26_FalloAislado ==
    /\ EnBucleFund =>
          /\ Len(infos) = i
          /\ pc # "fundamentals" => i = tickers
          /\ \A t \in 1..i :
                FilasDelTicker(resultados, t) =
                    (IF IsNull(infos[t]) THEN <<>>
                     ELSE <<FilaFundamentals(t, Val(infos[t]))>>)
          /\ \A a, b \in Indices(resultados) :
                a < b => resultados[a].Ticker < resultados[b].Ticker
          /\ callback =>
                /\ Len(progress) >= 2 + i
                /\ \A k \in 1..i : progress[2 + k] = 35 * tickers + 55 * k
          /\ resultados = <<>> <=> \A t \in 1..i : IsNull(infos[t])
    /\ BulkDescargado =>
          /\ Len(infos) = tickers
          /\ \A t \in 1..tickers :
                FilasDelTicker(Val(_df_raw), t) =
                    (IF IsNull(infos[t]) THEN <<>> ELSE Val(infos[t]))
          /\ \A a, b \in Indices(Val(_df_raw)) :
                a < b => Val(_df_raw)[a].Ticker <= Val(_df_raw)[b].Ticker
          /\ callback => progress = [k \in 1..tickers |-> 100 * k]
          /\ Val(_df_raw) = <<>> <=> \A t \in 1..tickers : IsNull(infos[t])

(* the bulk download fails on the first ticker and goes on to the second *)
C26_Witness ==
    /\ BulkDescargado
    /\ callback
    /\ IsNull(infos[1])
    /\ NotNull(infos[2])
    /\ Len(Val(infos[2])) = 2
    /\ Val(_df_raw) = Val(infos[2])
    /\ progress = <<100, 200>>

-----------------------------------------------------------------------------
(* MarketScanner.escanear and escanear_todos_periodos with their direction *)
(* flag: src/market_scanner_model.py 184-239.  The scanner has two         *)
(* tickers; progress is in numerators over 100 * tickers.                  *)

(* 208-210, 227: every modo other than "gainers" ranks the losers *)
Ascendente(m) == m # "gainers"

InitEscanear ==
    /\ pc = "esc_call"
    /\ \/ metodo = "escanear" /\ dias \in PERIODOS
       \/ metodo = "escanear_todos_periodos" /\ dias = 0
    /\ modo \in {"losers", "gainers", "winners"}
    /\ callback \in BOOLEAN
    /\ tickers = 2
    /\ precios = <<>>
    /\ infos = <<>>
    /\ df_mom = <<>>
    /\ resultados = <<>>
    /\ i = 0
    /\ progress = <<>>
    /\ df = <<>>
    /\ ranking = <<>>
    /\ variacion = <<>>
    /\ top_n = TOP_N_MARKET
    /\ losers = None /\ gainers = None
    /\ top = None /\ bottom = None
    /\ IdleRank /\ IdleAgg /\ IdlePortfolio
    /\ _df_raw = None /\ previo = None /\ descargas = 0 /\ salida = None
    /\ tipo_pe = "" /\ escaneo = None

(* 184-210 *)
Escanear ==
    /\ pc = "esc_call"
    /\ metodo = "escanear"
    /\ \E panel \in PricePanels : precios' = panel
    /\ progress' = Report(<<70 * tickers, 100 * tickers>>)
    /\ variacion' = calcular_variacion(precios', dias)
    /\ IF Ascendente(modo)
       THEN /\ \E t \in top_variacion(variacion', top_n, TRUE) : losers' = Some(t)
            /\ gainers' = gainers
       ELSE /\ \E t \in top_variacion(variacion', top_n, FALSE) : gainers' = Some(t)
            /\ losers' = losers
    /\ pc' = "esc_ret"
    /\ UNCHANGED <<tickers, callback, infos, df_mom, resultados, i, df, ranking,
                   series, ascending, pct, varsAgg, top_n, top, bottom, dias,
                   varsPortfolio, varsResto>>

(* 212-239: one download, then every period of PERIODOS in turn *)
EscanearTodosPeriodos ==
    /\ pc = "esc_call"
    /\ metodo = "escanear_todos_periodos"
    /\ \E panel \in PricePanels : precios' = panel
    /\ \E a \in top_variacion(calcular_variacion(precios', 30), top_n, Ascendente(modo)),
          b \in top_variacion(calcular_variacion(precios', 90), top_n, Ascendente(modo)),
          c \in top_variacion(calcular_variacion(precios', 180), top_n, Ascendente(modo)),
          d \in top_variacion(calcular_variacion(precios', 365), top_n, Ascendente(modo)) :
            resultados' = [p \in PERIODOS |->
                              IF p = 30 THEN a ELSE IF p = 90 THEN b
                              ELSE IF p = 180 THEN c ELSE d]
    /\ progress' = Report([k \in 1..4 |-> 25 * k * tickers])
    /\ pc' = "esc_ret"
    /\ UNCHANGED <<tickers, callback, infos, df_mom, i, df, ranking,
                   series, ascending, pct, varsAgg, varsRanker, dias,
                   varsPortfolio, varsResto>>

NextEscanear == Escanear \/ EscanearTodosPeriodos

SpecEscanear == InitEscanear /\ [][NextEscanear]_vars

(* Claims about the direction flag, checked under SpecEscanear *)

Escaneado == pc = "esc_ret"

(* C25 as stated: a call with a modo other than "losers" or "gainers" ends *)
(* without a download and without a ranking.                               *)
C25_ModoInvalidoRechazado ==
    (Escaneado /\ modo \notin {"losers", "gainers"}) =>
        /\ precios = <<>>
        /\ variacion = <<>>
        /\ progress = <<>>
        /\ losers = None /\ gainers = None
        /\ resultados = <<>>

-----------------------------------------------------------------------------
(* PERScanner.escanear: src/per_scanner_model.py 62-179.                   *)
(*                                                                         *)
(* The provider's answer for a ticker is None when the retrieval raises    *)
(* and otherwise its info with trailingPE and forwardPE, each missing      *)
(* (None) or a number in thousandths.  A row of the bulk table is          *)
(* [Ticker, trailing, forward], the two P/E columns in hundredths;         *)
(* Nombre, Sector and Precio are display columns and are left out.         *)
(* sort_values runs twice on the same frame for bajo and todos and gives   *)
(* the same order both times; which order it gives to equal values is      *)
(* open.                                                                   *)

TOP_N_PER == 10
(* 81-82: x if (x and x > 0) else None *)
Positivo(x) == IF IsNull(x) THEN None ELSE IF Val(x) > 0 THEN x ELSE None

(* 95-96: round(x, 2) if x else None *)
Redondeado(x) == IF IsNull(x) THEN None ELSE Some(Redondear(Val(x), 10))

(* 76-97: the rows one ticker adds *)
FilaPERBulk(sym, answer) ==
    IF IsNull(answer) THEN <<>>
    ELSE LET trailing == Positivo(Val(answer).trailingPE)
             forward  == Positivo(Val(answer).forwardPE)
         IN  IF IsNull(trailing) /\ IsNull(forward) THEN <<>>
             ELSE <<[Ticker |-> sym, trailing |-> Redondeado(trailing),
                     forward |-> Redondeado(forward)]>>

(* 62-105 *)
RECURSIVE obtener_per_bulk(_, _)
obtener_per_bulk(answers, n) ==
    IF n = 0 THEN <<>>
    ELSE obtener_per_bulk(answers, n - 1) \o FilaPERBulk(n, answers[n])

Celda(row, col) == IF col = "Trailing P/E" THEN row.trailing ELSE row.forward

(* 153-156 *)
Pedida(tipo) == IF tipo = "forward" THEN "Forward P/E" ELSE "Trailing P/E"

(* 160, 165: df[df[col_pe].notna()] *)
Validos(tabla, col) ==
    LET ConValor(r) == NotNull(Celda(r, col)) IN SelectSeq(tabla, ConValor)

(* 162-165: the fallback to the other column *)
ColumnaUsada(tabla, tipo) ==
    IF Validos(tabla, Pedida(tipo)) # <<>> THEN Pedida(tipo)
    ELSE IF Pedida(tipo) = "Trailing P/E" THEN "Forward P/E" ELSE "Trailing P/E"

(* 167-169: the orders sort_values(col_pe, ascending) may give *)
RECURSIVE OrdenesPER(_, _, _, _)
OrdenesPER(v, col, S, asc) ==
    IF S = {} THEN {<<>>}
    ELSE LET cabeza == {k \in S : \A j \in S :
                           ~AntesValor(Val(Celda(v[j], col)), Val(Celda(v[k], col)), asc)}
         IN  {p \o r : p \in PermSeqs(cabeza),
                       r \in OrdenesPER(v, col, S \ cabeza, asc)}

Ordenada(v, orden) == [r \in Indices(orden) |-> v[orden[r]]]

(* The universes, bounded: 1..MaxPER tickers, or TOP_N_PER + 1; the last   *)
(* MaxPER tickers get any answer, the others a fixed one with both P/E.    *)
MaxPER == 2
AnswersPER(t, total) ==
    IF t <= total - MaxPER
    THEN {Some([trailingPE |-> Some(10000 + 1000 * t),
                forwardPE |-> Some(10500 + 1000 * t)])}
    ELSE {None} \cup {Some([trailingPE |-> tr, forwardPE |-> fw]) :
                         tr \in {None, Some(-5000), Some(4), Some(15000)},
                         fw \in {None, Some(12000), Some(15000)}}

RECURSIVE AnswersPERUpTo(_, _)
AnswersPERUpTo(n, total) ==
    IF n = 0 THEN {<<>>}
    ELSE {Append(p, a) : p \in AnswersPERUpTo(n - 1, total), a \in AnswersPER(n, total)}

InitPER ==
    /\ pc = "per_call"
    /\ tickers \in (1..MaxPER) \cup {TOP_N_PER + 1}
    /\ tipo_pe \in {"trailing", "forward", "ambos"}
    /\ callback \in BOOLEAN
    /\ escaneo = None
    /\ precios = <<>>
    /\ infos = <<>>
    /\ df_mom = <<>>
    /\ resultados = <<>>
    /\ i = 0
    /\ progress = <<>>
    /\ df = <<>>
    /\ ranking = <<>>
    /\ IdleRank /\ IdleAgg /\ IdleRanker /\ dias = 0 /\ IdlePortfolio
    /\ _df_raw = None /\ metodo = "" /\ previo = None
    /\ descargas = 0 /\ salida = None /\ modo = ""

(* 122-179 *)
EscanearPER ==
    /\ pc = "per_call"
    /\ \E answers \in AnswersPERUpTo(tickers, tickers) :
        /\ infos' = answers
        /\ df' = obtener_per_bulk(answers, tickers)
    /\ IF df' = <<>>
       THEN /\ escaneo' = Some([bajo |-> <<>>, alto |-> <<>>, todos |-> <<>>,
                                col_pe |-> "Trailing P/E"])
            /\ progress' = Report(<<5 * tickers, 92 * tickers>>)
       ELSE /\ \E col \in {ColumnaUsada(df', tipo_pe)} :
               \E v \in {Validos(df', col)} :
               \E sube \in OrdenesPER(v, col, Indices(v), TRUE),
                  baja \in OrdenesPER(v, col, Indices(v), FALSE) :
                  escaneo' = Some([bajo   |-> Ordenada(v, head(sube, TOP_N_PER)),
                                   alto   |-> Ordenada(v, head(baja, TOP_N_PER)),
                                   todos  |-> Ordenada(v, sube),
                                   col_pe |-> col])
            /\ progress' = Report(<<5 * tickers, 92 * tickers, 100 * tickers>>)
    /\ pc' = "per_ret"
    /\ UNCHANGED <<tickers, callback, precios, df_mom, resultados, i, ranking,
                   series, ascending, pct, varsAgg, varsRanker, dias,
                   varsPortfolio, _df_raw, metodo, previo, descargas, salida,
                   modo, tipo_pe>>

NextPER == EscanearPER

SpecPER == InitPER /\ [][NextPER]_vars

(* Claims about PERScanner.escanear, checked under SpecPER *)

EscaneadoPER == pc = "per_ret"
FilasPositivas(tabla, col) ==
    \A r \in Indices(tabla) :
        NotNull(Celda(tabla[r], col)) /\ Val(Celda(tabla[r], col)) > 0

(* C29 as stated: when the bulk table is non-empty, todos is non-empty,    *)
(* every row of bajo, alto and todos has a positive value in col_pe, bajo  *)
(* is the first min(10, n) rows of todos, and col_pe is the requested      *)
(* column unless that column is null in every row of the bulk table.       *)
C29_FilasConPER ==
    (EscaneadoPER /\ df # <<>>) =>
        LET e == Val(escaneo) IN
        /\ e.todos # <<>>
        /\ FilasPositivas(e.bajo, e.col_pe)
        /\ FilasPositivas(e.alto, e.col_pe)
        /\ FilasPositivas(e.todos, e.col_pe)
        /\ e.bajo = SubSeq(e.todos, 1, Min(TOP_N_PER, Len(e.todos)))
        /\ e.col_pe # Pedida(tipo_pe) =>
              \A r \in Indices(df) : IsNull(Celda(df[r], Pedida(tipo_pe)))

====
